---- MODULE Spec2Model ----
(***************************************************************************)
(* Model of app.py: the invitation / reminder service.                     *)
(*                                                                         *)
(* The three TinyDB tables are sequences of documents in insertion order.  *)
(* Every call on a table (get, search, insert, update) is one atomic step; *)
(* a handler that makes several calls is several steps, so that handlers   *)
(* running on different threads interleave between their store calls.      *)
(* Wall-clock time is the ordinal of the current calendar day: isoformat   *)
(* timestamps are compared by the code only against the start of a day.    *)
(***************************************************************************)
EXTENDS Integers, Sequences, FiniteSets, TLC

VARIABLES
    invitations,    \* invitations_table
    events,         \* events_table
    reminders,      \* reminders_table
    today,          \* datetime.now().date()
    th,             \* per thread: the handler it runs, its position and locals
    resp,           \* the HTTP response last sent
    responded,      \* history: tokens whose confirm_response call has returned
    sched           \* reminder_thread, stop_reminder_thread, the scheduler loops

vars == <<invitations, events, reminders, today, th, resp, responded, sched>>

(* ------------------------------ bounds --------------------------------- *)

\* most invitation documents ever created
MaxInv == 2
\* most invitation documents created where reminders are sent
MaxInvReminders == 1
\* most reminder documents ever inserted
MaxRem == 2
\* last calendar day the clock reaches (it starts at day 0)
MaxDay == 1
\* most required fields a create_invitation request lacks
MaxMissing == 2
\* most reminder documents inserted where only manual reminders are sent
MaxSendNow == 4

(* --------------------------- input domains ----------------------------- *)

\* threads serving HTTP requests, and the reminder_scheduler threads: the one
\* start_reminder_thread starts, and a second one for the calls that start a
\* thread while another is alive
Workers == {"w1", "w2"}
SchedThread == "sched"
SchedThreads == {SchedThread, "sched2"}
Threads == Workers \cup SchedThreads

\* the jobs run_pending finds due: none, one, or the daily and the hourly one
DueInputs == 0..2

EventIds == {"e1", "e2"}
ParticipantIds == {"p1", "p2"}

\* an event_date string: "" (empty), one that strptime rejects, or YYYY-MM-DD
\* (held as the ordinal of the day it names)
EmptyDate == [kind |-> "empty", day |-> 0]
BadDate == [kind |-> "bad", day |-> 0]
Ymd(d) == [kind |-> "ymd", day |-> d]

\* the window of line 113 (days_until_event <= 3)
days_before_event == 3

\* tokens are uuid4 strings; the n-th one generated is modelled as n
TokenInputs == 1..(MaxInv + 1)
ResponseInputs == {"confirmed", "declined", "maybe"}

(* ------------------------------ app.py --------------------------------- *)

required_fields ==
    <<"event_id", "event_name", "event_date", "event_time",
      "participant_id", "participant_name", "participant_phone">>

Fields == {required_fields[i] : i \in 1..Len(required_fields)}

\* request.json of create_invitation: a dict holding the fields in `present`
RequestData(present, e, d, p) ==
    [f \in present |->
        CASE f = "event_id" -> e
          [] f = "event_name" -> "Party"
          [] f = "event_date" -> d
          [] f = "event_time" -> "18:00"
          [] f = "participant_id" -> p
          [] f = "participant_name" -> "Ana"
          [] OTHER -> "555"]

\* a thread's locals; NoLocals is a thread outside any handler
NoLocals ==
    [pc |-> "idle", op |-> "none", token |-> 0, response |-> "none",
     invitation |-> <<>>, event |-> <<>>, pending_invitations |-> <<>>, idx |-> 0,
     now |-> 0, sent_count |-> 0, after |-> {}]

NoResp == [op |-> "none", code |-> 0, error |-> "", body |-> <<>>]

Response(op, code, error, body) ==
    [op |-> op, code |-> code, error |-> error, body |-> body]

\* table.get(Query().field == value): the first matching document, as a
\* sequence of one document, or <<>> for None
Get(table, field, value) ==
    LET hits == {i \in 1..Len(table) : table[i][field] = value}
    IN  IF hits = {} THEN <<>>
        ELSE <<table[CHOOSE i \in hits : \A j \in hits : i <= j]>>

\* table.search(Query().field == value): the matching documents, in table order
Search(table, field, value) == SelectSeq(table, LAMBDA d : d[field] = value)

\* faulty variant of Update: the query is ignored, every document is patched
UpdateEvery(table, fields, field, value) ==
    [i \in 1..Len(table) |->
        [k \in DOMAIN table[i] \cup DOMAIN fields |->
            IF k \in DOMAIN fields THEN fields[k] ELSE table[i][k]]]

\* table.update(fields, Query().field == value): every matching document gets
\* the keys of `fields`
Update(table, fields, field, value) ==
    [i \in 1..Len(table) |->
        IF table[i][field] = value
        THEN [k \in DOMAIN table[i] \cup DOMAIN fields |->
                IF k \in DOMAIN fields THEN fields[k] ELSE table[i][k]]
        ELSE table[i]]

\* faulty variant of FirstMissing: the loop keeps the last missing field it meets
FirstMissingLast(data) ==
    LET missing == {i \in 1..Len(required_fields) :
                        required_fields[i] \notin DOMAIN data}
    IN  IF missing = {} THEN 0
        ELSE CHOOSE i \in missing : \A j \in missing : j <= i

\* the loop of create_invitation over required_fields: index of the first field
\* that is not in data, 0 when none is missing
FirstMissing(data) ==
    LET missing == {i \in 1..Len(required_fields) :
                        required_fields[i] \notin DOMAIN data}
    IN  IF missing = {} THEN 0
        ELSE CHOOSE i \in missing : \A j \in missing : i <= j

\* faulty variant of NewToken: every invitation gets the token of the first
NewTokenConstant == IF invitations = <<>> THEN Len(invitations) + 1 ELSE invitations[1].token

\* str(uuid.uuid4()): a token no invitation holds yet
NewToken == Len(invitations) + 1

NewInvitation(data) ==
    [token |-> NewToken,
     event_id |-> data["event_id"],
     event_name |-> data["event_name"],
     event_date |-> data["event_date"],
     event_time |-> data["event_time"],
     participant_id |-> data["participant_id"],
     participant_name |-> data["participant_name"],
     participant_phone |-> data["participant_phone"],
     status |-> "pending",
     created_at |-> today,
     response_time |-> <<>>]

\* the handler on thread t returns r: resp is the response last sent
Finish(t, r) ==
    /\ th' = [th EXCEPT ![t] = NoLocals]
    /\ resp' = r

\* POST /api/create_invitation
create_invitation(t, data) ==
    /\ th[t].pc = "idle"
    /\ LET m == FirstMissing(data)
       IN  IF m # 0
           THEN /\ Finish(t, Response("create_invitation", 400, required_fields[m], <<>>))
                /\ UNCHANGED <<invitations, events, reminders, today, responded, sched>>
           ELSE /\ invitations' = Append(invitations, NewInvitation(data))
                /\ Finish(t, Response("create_invitation", 200, "", <<NewToken>>))
                /\ UNCHANGED <<events, reminders, today, responded, sched>>

\* GET /api/check_status/<token>
check_status_response(token) ==
    LET invitation == Get(invitations, "token", token)
    IN  IF invitation = <<>>
        THEN Response("check_status", 404, "not_found", <<>>)
        ELSE Response("check_status", 200, "", <<invitation[1].status>>)

check_status(t, token) ==
    /\ th[t].pc = "idle"
    /\ Finish(t, check_status_response(token))
    /\ UNCHANGED <<invitations, events, reminders, today, responded, sched>>

\* faulty variant of ParticipantMap: the first document of a participant is kept
RECURSIVE ParticipantMapFirst(_, _)
ParticipantMapFirst(docs, acc) ==
    IF docs = <<>> THEN acc
    ELSE ParticipantMapFirst(Tail(docs),
            [p \in DOMAIN acc \cup {Head(docs).participant_id} |->
                IF p \in DOMAIN acc THEN acc[p] ELSE Head(docs).status])

\* the loop of check_event_invitations: participants[participant_id] = status,
\* a later document overwriting an earlier one of the same participant
RECURSIVE ParticipantMap(_, _)
ParticipantMap(docs, acc) ==
    IF docs = <<>> THEN acc
    ELSE ParticipantMap(Tail(docs),
            [p \in DOMAIN acc \cup {Head(docs).participant_id} |->
                IF p = Head(docs).participant_id THEN Head(docs).status ELSE acc[p]])

\* GET /api/check_event_invitations/<event_id>
check_event_invitations_response(event_id) ==
    LET found == Search(invitations, "event_id", event_id)
    IN  Response("check_event_invitations", 200, "", ParticipantMap(found, <<>>))

check_event_invitations(t, event_id) ==
    /\ th[t].pc = "idle"
    /\ Finish(t, check_event_invitations_response(event_id))
    /\ UNCHANGED <<invitations, events, reminders, today, responded, sched>>

(* ----------------------- confirm_response ------------------------------ *)

\* the local `invitation` of a handler: the fields of the document read at the
\* lookup that the handler uses afterwards (none reads its status again)
Snapshot(doc) ==
    [f \in {"token", "event_id", "event_name", "event_date", "event_time",
             "participant_id"} |-> doc[f]]

\* faulty variant of ValidResponse: any non-empty response passes
ValidResponseAny(response) == response # ""

\* line 215: response in ['confirmed', 'declined']
ValidResponse(response) == response \in {"confirmed", "declined"}

\* lines 212-223: validate the response, then look the invitation up
confirm_get(t, token, response) ==
    /\ th[t].pc = "idle"
    /\ UNCHANGED <<invitations, events, reminders, today, responded, sched>>
    /\ IF ~ValidResponse(response)
       THEN Finish(t, Response("confirm_response", 200, "invalid_response", <<>>))
       ELSE LET invitation == Get(invitations, "token", token)
            IN  IF invitation = <<>>
                THEN Finish(t, Response("confirm_response", 200, "not_found", <<>>))
                ELSE /\ th' = [th EXCEPT ![t] =
                            [NoLocals EXCEPT !.pc = "confirm_update",
                                             !.op = "confirm_response",
                                             !.token = token,
                                             !.response = response,
                                             !.invitation = <<Snapshot(invitation[1])>>]]
                     /\ UNCHANGED resp

\* faulty variant of ResponsePatch: the patch leaves the status out
ResponsePatchTimeOnly(response, now) == [response_time |-> <<now>>]

\* the patch of line 226
ResponsePatch(response, now) == [status |-> response, response_time |-> <<now>>]

\* faulty variant of confirm_update: the invitation is never updated
confirm_update_skipped(t) ==
    /\ th[t].pc = "confirm_update"
    /\ th' = [th EXCEPT ![t].pc = "confirm_event_get"]
    /\ UNCHANGED <<invitations, events, reminders, today, resp, responded, sched>>

\* lines 226-227: invitations_table.update
confirm_update(t) ==
    /\ th[t].pc = "confirm_update"
    /\ invitations' = Update(invitations, ResponsePatch(th[t].response, today),
                             "token", th[t].token)
    /\ th' = [th EXCEPT ![t].pc = "confirm_event_get"]
    /\ UNCHANGED <<events, reminders, today, resp, responded, sched>>

\* line 231: events_table.get
confirm_event_get(t) ==
    /\ th[t].pc = "confirm_event_get"
    /\ th' = [th EXCEPT ![t].pc = "confirm_event_put",
                        ![t].event = Get(events, "event_id", th[t].invitation[1].event_id)]
    /\ UNCHANGED <<invitations, events, reminders, today, resp, responded, sched>>

\* lines 234-235: the participants dict of the event read, with this response
MergedParticipants(event, invitation, response) ==
    [p \in DOMAIN event.participants \cup {invitation.participant_id} |->
        IF p = invitation.participant_id THEN response ELSE event.participants[p]]

NewEvent(invitation, response) ==
    [event_id |-> invitation.event_id,
     event_name |-> invitation.event_name,
     event_date |-> invitation.event_date,
     event_time |-> invitation.event_time,
     participants |-> [p \in {invitation.participant_id} |-> response]]

\* lines 233-249: events_table.update or events_table.insert, then the page
confirm_event_put(t) ==
    /\ th[t].pc = "confirm_event_put"
    /\ LET invitation == th[t].invitation[1]
       IN  IF th[t].event # <<>>
           THEN events' = Update(events,
                    [participants |->
                        MergedParticipants(th[t].event[1], invitation, th[t].response)],
                    "event_id", invitation.event_id)
           ELSE events' = Append(events, NewEvent(invitation, th[t].response))
    /\ Finish(t, Response("confirm_response", 200, "", <<th[t].response>>))
    /\ responded' = responded \cup {th[t].token}
    /\ UNCHANGED <<invitations, reminders, today, sched>>

(* ---------------------------- reminders -------------------------------- *)

\* datetime.strptime(s, "%Y-%m-%d") succeeds
Parses(event_date_str) == event_date_str.kind = "ymd"

\* datetime.strptime(s, "%Y-%m-%d").date(), as the ordinal of the day
strptime(event_date_str) == event_date_str.day

\* lines 99-104: the reminders of `token` with sent_at >= today_start, where
\* today_start is midnight of the day `now` of the pass
today_reminders(token, now) ==
    SelectSeq(reminders, LAMBDA r : r.invitation_token = token /\ r.sent_at >= now)

\* faulty variant of CallsSendReminder: the window is days_until_event < 3
CallsSendReminderStrict(invitation, now) ==
    IF invitation.event_date.kind = "empty" THEN FALSE
    ELSE IF ~Parses(invitation.event_date) THEN FALSE
    ELSE IF strptime(invitation.event_date) < now THEN FALSE
    ELSE IF today_reminders(invitation.token, now) # <<>> THEN FALSE
    ELSE strptime(invitation.event_date) - now < days_before_event

\* lines 85-116, the body of the loop for one pending invitation: TRUE when
\* send_reminder is called, FALSE at each `continue`, at the except of line
\* 118 and when the event is more than 3 days ahead
CallsSendReminder(invitation, now) ==
    IF invitation.event_date.kind = "empty" THEN FALSE
    ELSE IF ~Parses(invitation.event_date) THEN FALSE
    ELSE IF strptime(invitation.event_date) < now THEN FALSE
    ELSE IF today_reminders(invitation.token, now) # <<>> THEN FALSE
    ELSE strptime(invitation.event_date) - now <= days_before_event

\* faulty variant of PendingInvitations: the search finds nothing
PendingInvitationsNone == <<>>

\* line 72: invitations_table.search(Invitation.status == 'pending')
PendingInvitations == Search(invitations, "status", "pending")

Snapshots(docs) == [i \in 1..Len(docs) |-> Snapshot(docs[i])]

\* the end of a pass: debug_check_pending_now answers its request, the
\* scheduler thread answers nobody
FinishPass(t) ==
    /\ th' = [th EXCEPT ![t] = NoLocals]
    /\ resp' = IF t \in SchedThreads THEN resp
               ELSE Response("check_pending_now", 200, "", <<>>)

\* lines 67-79: fetch the pending invitations, read the clock (the scheduler's
\* globals are left to the caller: the debug handler or the scheduler loop)
check_pending_fetch(t) ==
    /\ th[t].pc = "idle"
    /\ UNCHANGED <<invitations, events, reminders, today, responded>>
    /\ IF PendingInvitations = <<>>
       THEN FinishPass(t)
       ELSE /\ th' = [th EXCEPT ![t] =
                    [NoLocals EXCEPT !.pc = "pass_eval",
                                     !.op = "check_pending_invitations",
                                     !.pending_invitations = Snapshots(PendingInvitations),
                                     !.idx = 1,
                                     !.now = today,
                                     !.after = responded]]
            /\ UNCHANGED resp

\* the loop of line 82 moves to its next invitation, or the pass ends
NextInvitation(t) ==
    IF th[t].idx < Len(th[t].pending_invitations)
    THEN /\ th' = [th EXCEPT ![t].pc = "pass_eval",
                             ![t].idx = th[t].idx + 1,
                             ![t].token = 0,
                             ![t].invitation = <<>>]
         /\ UNCHANGED resp
    ELSE FinishPass(t)

\* faulty variant of pass_eval: an invitation whose date fails ends the pass
pass_eval_aborts(t) ==
    /\ th[t].pc = "pass_eval"
    /\ UNCHANGED <<invitations, events, reminders, today, responded, sched>>
    /\ LET invitation == th[t].pending_invitations[th[t].idx]
       IN  IF invitation.event_date.kind # "ymd"
           THEN FinishPass(t)
           ELSE IF CallsSendReminder(invitation, th[t].now)
           THEN /\ th' = [th EXCEPT ![t].pc = "send_get",
                                    ![t].token = invitation.token]
                /\ UNCHANGED resp
           ELSE NextInvitation(t)

\* lines 83-120: one invitation of the pass, up to the call of send_reminder
pass_eval(t) ==
    /\ th[t].pc = "pass_eval"
    /\ UNCHANGED <<invitations, events, reminders, today, responded, sched>>
    /\ LET invitation == th[t].pending_invitations[th[t].idx]
       IN  IF CallsSendReminder(invitation, th[t].now)
           THEN /\ th' = [th EXCEPT ![t].pc = "send_get",
                                    ![t].token = invitation.token]
                /\ UNCHANGED resp
           ELSE NextInvitation(t)

\* lines 401-409: the loop of api_send_event_reminders counts the reminder and
\* moves to its next invitation, or the handler answers
NextEventReminder(t, sent) ==
    LET sent_count == th[t].sent_count + (IF sent THEN 1 ELSE 0)
    IN  IF th[t].idx < Len(th[t].pending_invitations)
        THEN /\ th' = [th EXCEPT ![t].pc = "send_get",
                                 ![t].idx = th[t].idx + 1,
                                 ![t].token = th[t].pending_invitations[th[t].idx + 1].token,
                                 ![t].invitation = <<>>,
                                 ![t].sent_count = sent_count]
             /\ UNCHANGED resp
        ELSE Finish(t, Response("send_event_reminders", 200, "",
                                <<Len(th[t].pending_invitations), sent_count>>))

\* send_reminder has returned `sent` to the handler that called it
Returned(t, sent) ==
    IF th[t].op = "check_pending_invitations"
    THEN NextInvitation(t)
    ELSE IF th[t].op = "api_send_event_reminders"
    THEN NextEventReminder(t, sent)
    ELSE IF sent
         THEN Finish(t, Response("send_reminder", 200, "", <<>>))
         ELSE Finish(t, Response("send_reminder", 500, "send_failed", <<>>))

\* send_reminder, lines 37-46: look the invitation up, check its status
send_get(t) ==
    /\ th[t].pc = "send_get"
    /\ UNCHANGED <<invitations, events, reminders, today, responded, sched>>
    /\ LET invitation == Get(invitations, "token", th[t].token)
       IN  IF invitation = <<>> \/ invitation[1].status # "pending"
           THEN Returned(t, FALSE)
           ELSE /\ th' = [th EXCEPT ![t].pc = "send_insert",
                                    ![t].invitation = <<Snapshot(invitation[1])>>]
                /\ UNCHANGED resp

NewReminder(invitation, now) ==
    [invitation_token |-> invitation.token,
     event_id |-> invitation.event_id,
     participant_id |-> invitation.participant_id,
     sent_at |-> now]

\* send_reminder, lines 48-58: reminders_table.insert
send_insert(t) ==
    /\ th[t].pc = "send_insert"
    /\ reminders' = Append(reminders, NewReminder(th[t].invitation[1], today))
    /\ Returned(t, TRUE)
    /\ UNCHANGED <<invitations, events, today, responded, sched>>

\* faulty variant of AlreadyResponded: only a declined invitation counts as responded
AlreadyRespondedDeclined(invitation) == invitation.status = "declined"

\* line 359: invitation['status'] != 'pending'
AlreadyResponded(invitation) == invitation.status # "pending"

\* POST /api/send_reminder/<token>, lines 350-364
api_send_reminder(t, token) ==
    /\ th[t].pc = "idle"
    /\ UNCHANGED <<invitations, events, reminders, today, responded, sched>>
    /\ LET invitation == Get(invitations, "token", token)
       IN  IF invitation = <<>>
           THEN Finish(t, Response("send_reminder", 404, "not_found", <<>>))
           ELSE IF AlreadyResponded(invitation[1])
           THEN Finish(t, Response("send_reminder", 400, "already_responded", <<>>))
           ELSE /\ th' = [th EXCEPT ![t] =
                        [NoLocals EXCEPT !.pc = "send_get",
                                         !.op = "api_send_reminder",
                                         !.token = token]]
                /\ UNCHANGED resp

\* POST /api/send_event_reminders/<event_id>, lines 380-386: events_table.get
event_reminders_get(t, event_id) ==
    /\ th[t].pc = "idle"
    /\ UNCHANGED <<invitations, events, reminders, today, responded, sched>>
    /\ LET event == Get(events, "event_id", event_id)
       IN  IF event = <<>>
           THEN Finish(t, Response("send_event_reminders", 404, "not_found", <<>>))
           ELSE /\ th' = [th EXCEPT ![t] =
                        [NoLocals EXCEPT !.pc = "event_reminders_search",
                                         !.op = "api_send_event_reminders",
                                         !.event = event]]
                /\ UNCHANGED resp

\* lines 390-393: the pending invitations of the event
PendingOfEvent(event_id) ==
    Search(Search(invitations, "event_id", event_id), "status", "pending")

\* lines 388-397: invitations_table.search, then the first send_reminder call
event_reminders_search(t) ==
    /\ th[t].pc = "event_reminders_search"
    /\ UNCHANGED <<invitations, events, reminders, today, responded, sched>>
    /\ LET pending_invitations == PendingOfEvent(th[t].event[1].event_id)
       IN  IF pending_invitations = <<>>
           THEN Finish(t, Response("send_event_reminders", 200, "none_pending", <<>>))
           ELSE /\ th' = [th EXCEPT ![t].pc = "send_get",
                                    ![t].pending_invitations = Snapshots(pending_invitations),
                                    ![t].idx = 1,
                                    ![t].token = pending_invitations[1].token,
                                    ![t].sent_count = 0]
                /\ UNCHANGED resp

\* line 423: 'max_reminders_per_invitation': 3
max_reminders_per_invitation == 3

\* GET /api/get_reminder_settings: the settings dict of lines 419-424 (the
\* two limits it reports)
get_reminder_settings(t) ==
    /\ th[t].pc = "idle"
    /\ Finish(t, Response("get_reminder_settings", 200, "",
                          <<days_before_event, max_reminders_per_invitation>>))
    /\ UNCHANGED <<invitations, events, reminders, today, responded, sched>>

(* ----------------------- scheduler lifecycle --------------------------- *)

\* reminder_thread is None
None == "None"

\* a reminder_scheduler thread that was never started or has returned
DeadLoop == [pc |-> "dead", due |-> 0]

\* reminder_thread.is_alive()
is_alive(l) == sched.loop[l].pc # "dead"

\* the Thread object line 153 creates: a thread that is not running
NewThread == IF ~is_alive(SchedThread) THEN SchedThread ELSE "sched2"

\* start_reminder_thread, line 151: reminder_thread is None or not alive
\* (called by /debug/start_reminder_thread and by before_first_request)
start_check(t) ==
    /\ th[t].pc = "idle"
    /\ UNCHANGED <<invitations, events, reminders, today, responded, sched>>
    /\ IF sched.reminder_thread = None \/ ~is_alive(sched.reminder_thread)
       THEN /\ th' = [th EXCEPT ![t] =
                    [NoLocals EXCEPT !.pc = "start_clear",
                                     !.op = "start_reminder_thread"]]
            /\ UNCHANGED resp
       ELSE Finish(t, Response("start_reminder_thread", 200, "", <<>>))

\* line 152: stop_reminder_thread = False
start_clear(t) ==
    /\ th[t].pc = "start_clear"
    /\ sched' = [sched EXCEPT !.stop_reminder_thread = FALSE]
    /\ th' = [th EXCEPT ![t].pc = "start_spawn"]
    /\ UNCHANGED <<invitations, events, reminders, today, resp, responded>>

\* lines 153-155: reminder_thread = Thread(target=reminder_scheduler); start()
start_spawn(t) ==
    /\ th[t].pc = "start_spawn"
    /\ ~is_alive(NewThread)
    /\ sched' = [sched EXCEPT !.reminder_thread = NewThread,
                              !.loop[NewThread] = [pc |-> "while", due |-> 0]]
    /\ Finish(t, Response("start_reminder_thread", 200, "", <<>>))
    /\ UNCHANGED <<invitations, events, reminders, today, responded>>

\* stop_reminder_thread_func, line 165 (called by /debug/stop_reminder_thread)
stop_reminder_thread_func(t) ==
    /\ th[t].pc = "idle"
    /\ sched' = [sched EXCEPT !.stop_reminder_thread = TRUE]
    /\ Finish(t, Response("stop_reminder_thread", 200, "", <<>>))
    /\ UNCHANGED <<invitations, events, reminders, today, responded>>

\* faulty variant of loop_while: the loop never reads stop_reminder_thread
loop_while_deaf(l, due) ==
    /\ sched.loop[l].pc = "while"
    /\ sched' = [sched EXCEPT !.loop[l] = [pc |-> "jobs", due |-> due]]
    /\ UNCHANGED <<invitations, events, reminders, today, th, resp, responded>>

\* reminder_scheduler, lines 139-140: the test of the while loop, then
\* schedule.run_pending() finds `due` jobs to run; line 143 when the flag is set
loop_while(l, due) ==
    /\ sched.loop[l].pc = "while"
    /\ sched' = [sched EXCEPT !.loop[l] =
                    IF sched.stop_reminder_thread THEN DeadLoop
                    ELSE [pc |-> "jobs", due |-> due]]
    /\ UNCHANGED <<invitations, events, reminders, today, th, resp, responded>>

\* run_pending runs its next due job: check_pending_invitations, on the
\* scheduler thread, after the job before it has returned
run_job(l) ==
    /\ sched.loop[l].pc = "jobs"
    /\ sched.loop[l].due > 0
    /\ check_pending_fetch(l)
    /\ sched' = [sched EXCEPT !.loop[l].due = sched.loop[l].due - 1]

\* line 141: run_pending has returned; time.sleep(60), then the test again
loop_sleep(l) ==
    /\ sched.loop[l].pc = "jobs"
    /\ sched.loop[l].due = 0
    /\ th[l].pc = "idle"
    /\ sched' = [sched EXCEPT !.loop[l].pc = "while"]
    /\ UNCHANGED <<invitations, events, reminders, today, th, resp, responded>>

\* the calendar day ends
Tick ==
    /\ today < MaxDay
    /\ today' = today + 1
    /\ UNCHANGED <<invitations, events, reminders, th, resp, responded, sched>>

(* --------------------------- specifications ---------------------------- *)

Init ==
    /\ invitations = <<>>
    /\ events = <<>>
    /\ reminders = <<>>
    /\ today = 0
    /\ th = [t \in Threads |-> NoLocals]
    /\ resp = NoResp
    /\ responded = {}
    /\ sched = [reminder_thread |-> None, stop_reminder_thread |-> FALSE,
                loop |-> [l \in SchedThreads |-> DeadLoop]]

\* requests that lack at most MaxMissing of the required fields
PresentInputs == {Fields \ m : m \in {x \in SUBSET Fields : Cardinality(x) <= MaxMissing}}

(* Responses, one request at a time: a single serving thread, two events,   *)
(* two participants, requests with missing fields, unknown tokens, invalid *)
(* responses.  (The identifiers are interchangeable: the first invitation  *)
(* is for e1 and p1.)                                                      *)
Create ==
    \E e \in EventIds, p \in ParticipantIds :
        /\ Len(invitations) < MaxInv
        /\ invitations = <<>> => e = "e1" /\ p = "p1"
        /\ create_invitation("w1", RequestData(Fields, e, Ymd(0), p))

CreateInvalid ==
    \E present \in PresentInputs \ {Fields} :
        create_invitation("w1", RequestData(present, "e1", Ymd(0), "p1"))

Confirm ==
    \E token \in TokenInputs, response \in ResponseInputs :
        confirm_get("w1", token, response)

ConfirmUpdate == confirm_update("w1")

ConfirmEventGet == confirm_event_get("w1")

ConfirmEventPut == confirm_event_put("w1")

CheckStatus == \E token \in TokenInputs : check_status("w1", token)

CheckEvent == \E e \in EventIds : check_event_invitations("w1", e)

NextResponses ==
    \/ Create
    \/ CreateInvalid
    \/ Confirm
    \/ ConfirmUpdate
    \/ ConfirmEventGet
    \/ ConfirmEventPut
    \/ CheckStatus
    \/ CheckEvent

SpecResponses == Init /\ [][NextResponses]_vars

(* Concurrent responses: two serving threads, one event, two participants. *)
RaceCreate ==
    \E t \in Workers, p \in ParticipantIds :
        /\ Len(invitations) < MaxInv
        /\ create_invitation(t, RequestData(Fields, "e1", Ymd(0), p))

RaceConfirm ==
    \E t \in Workers, token \in 1..MaxInv, response \in {"confirmed", "declined"} :
        confirm_get(t, token, response)

RaceConfirmUpdate == \E t \in Workers : confirm_update(t)

RaceConfirmEventGet == \E t \in Workers : confirm_event_get(t)

RaceConfirmEventPut == \E t \in Workers : confirm_event_put(t)

NextRace ==
    \/ RaceCreate
    \/ RaceConfirm
    \/ RaceConfirmUpdate
    \/ RaceConfirmEventGet
    \/ RaceConfirmEventPut

SpecRace == Init /\ [][NextRace]_vars

(* Reminders: the scheduler thread runs passes, one serving thread runs     *)
(* every handler; one event, one participant, event dates on both sides of *)
(* the 3-day window, empty and unparsable dates.                           *)
DateInputs == {Ymd(0), Ymd(days_before_event + 1), EmptyDate, BadDate}

RemCreate ==
    \E d \in DateInputs :
        /\ Len(invitations) < MaxInvReminders
        /\ create_invitation("w1", RequestData(Fields, "e1", d, "p1"))

RemConfirm ==
    \E token \in 1..(MaxInvReminders + 1), response \in {"confirmed", "declined"} :
        confirm_get("w1", token, response)

RemCheckStatus == \E token \in 1..MaxInvReminders : check_status("w1", token)

RemSendNow == \E token \in 1..(MaxInvReminders + 1) : api_send_reminder("w1", token)

RemPass ==
    \E t \in {"w1", SchedThread} : check_pending_fetch(t) /\ UNCHANGED sched

RemPassEval == \E t \in {"w1", SchedThread} : pass_eval(t)

RemSendGet == \E t \in {"w1", SchedThread} : send_get(t)

RemSendInsert ==
    \E t \in {"w1", SchedThread} : Len(reminders) < MaxRem /\ send_insert(t)

NextReminders ==
    \/ RemCreate
    \/ RemConfirm
    \/ ConfirmUpdate
    \/ ConfirmEventGet
    \/ ConfirmEventPut
    \/ RemCheckStatus
    \/ RemSendNow
    \/ RemPass
    \/ RemPassEval
    \/ RemSendGet
    \/ RemSendInsert
    \/ Tick

SpecReminders == Init /\ [][NextReminders]_vars

(* Passes only: the scheduler thread's pass and the pass of                 *)
(* /debug/check_pending_now, interleaved.                                  *)
PassCreate ==
    \E d \in DateInputs :
        /\ Len(invitations) < MaxInv
        /\ create_invitation("w1", RequestData(Fields, "e1", d, "p1"))

NextPasses ==
    \/ PassCreate
    \/ RemPass
    \/ RemPassEval
    \/ RemSendGet
    \/ RemSendInsert
    \/ Tick

SpecPasses == Init /\ [][NextPasses]_vars

(* Manual reminders only: one serving thread, no pass.                     *)
NextSendNow ==
    \/ RemCreate
    \/ RemConfirm
    \/ ConfirmUpdate
    \/ ConfirmEventGet
    \/ ConfirmEventPut
    \/ RemSendNow
    \/ RemSendGet
    \/ RemSendInsert
    \/ Tick

SpecSendNow == Init /\ [][NextSendNow]_vars

(* Reminders of an event: one serving thread creates invitations of e1 for  *)
(* p1 and p2, records responses and asks for the reminders of e1.          *)
EvCreate ==
    \E p \in ParticipantIds :
        /\ Len(invitations) < MaxInv
        /\ \A i \in DOMAIN invitations : invitations[i].participant_id # p
        /\ create_invitation("w1", RequestData(Fields, "e1", Ymd(0), p))

EvConfirm ==
    \E token \in 1..MaxInv, response \in {"confirmed", "declined"} :
        confirm_get("w1", token, response)

EvSendEvent == \E e \in EventIds : event_reminders_get("w1", e)

EvSearch == event_reminders_search("w1")

EvSendGet == send_get("w1")

EvSendInsert == Len(reminders) < MaxRem /\ send_insert("w1")

NextEventReminders ==
    \/ EvCreate
    \/ EvConfirm
    \/ ConfirmUpdate
    \/ ConfirmEventGet
    \/ ConfirmEventPut
    \/ EvSendEvent
    \/ EvSearch
    \/ EvSendGet
    \/ EvSendInsert

SpecEventReminders == Init /\ [][NextEventReminders]_vars

(* The scheduler's lifecycle: one serving thread starts and stops the       *)
(* scheduler, creates an invitation and records its response; the          *)
(* scheduler thread polls and runs its passes.                             *)
SchCreate ==
    \E d \in DateInputs :
        /\ Len(invitations) < MaxInvReminders
        /\ create_invitation("w1", RequestData(Fields, "e1", d, "p1"))

SchConfirm ==
    \E token \in 1..MaxInvReminders, response \in {"confirmed", "declined"} :
        confirm_get("w1", token, response)

SchStart == start_check("w1")

SchStartClear == start_clear("w1")

SchStartSpawn == start_spawn("w1")

SchStop == stop_reminder_thread_func("w1")

LoopWhile == \E l \in SchedThreads, due \in DueInputs : loop_while(l, due)

\* the loop's test at a time when a job is due
LoopWhileDue == \E l \in SchedThreads, due \in DueInputs \ {0} : loop_while(l, due)

LoopRunJob == \E l \in SchedThreads : run_job(l)

LoopSleep == \E l \in SchedThreads : loop_sleep(l)

LoopPassEval == \E l \in SchedThreads : pass_eval(l)

LoopSendGet == \E l \in SchedThreads : send_get(l)

LoopSendInsert == \E l \in SchedThreads : send_insert(l)

NextScheduler ==
    \/ SchCreate
    \/ SchConfirm
    \/ ConfirmUpdate
    \/ ConfirmEventGet
    \/ ConfirmEventPut
    \/ SchStart
    \/ SchStartClear
    \/ SchStartSpawn
    \/ SchStop
    \/ LoopWhile
    \/ LoopRunJob
    \/ LoopSleep
    \/ LoopPassEval
    \/ LoopSendGet
    \/ LoopSendInsert
    \/ Tick

SpecScheduler == Init /\ [][NextScheduler]_vars

\* a started thread keeps running: every step of the loop and of its pass is
\* eventually taken, and the hourly job comes due again and again
LoopFairness ==
    /\ WF_vars(LoopWhile)
    /\ SF_vars(LoopWhileDue)
    /\ WF_vars(LoopRunJob)
    /\ WF_vars(LoopSleep)
    /\ WF_vars(LoopPassEval)
    /\ WF_vars(LoopSendGet)
    /\ WF_vars(LoopSendInsert)

SpecSchedulerFair == SpecScheduler /\ LoopFairness

(* Concurrent lifecycle calls: two serving threads start and stop the       *)
(* scheduler while an invitation is pending.                               *)
StartRaceCreate ==
    /\ Len(invitations) < MaxInvReminders
    /\ create_invitation("w1", RequestData(Fields, "e1", Ymd(0), "p1"))

StartRaceStart == \E t \in Workers : start_check(t)

StartRaceClear == \E t \in Workers : start_clear(t)

StartRaceSpawn == \E t \in Workers : start_spawn(t)

StartRaceStop == \E t \in Workers : stop_reminder_thread_func(t)

NextStartRace ==
    \/ StartRaceCreate
    \/ StartRaceStart
    \/ StartRaceClear
    \/ StartRaceSpawn
    \/ StartRaceStop
    \/ LoopWhile
    \/ LoopRunJob
    \/ LoopSleep
    \/ LoopPassEval
    \/ LoopSendGet
    \/ LoopSendInsert

SpecStartRace == Init /\ [][NextStartRace]_vars

(* Concurrent responses on different tokens: e1 has one invitation of p1    *)
(* and one of p2; w1 serves the responses to the first token and w2 those  *)
(* to the second.                                                          *)
TokenOf(t) == IF t = "w1" THEN 1 ELSE 2

TokRaceCreate ==
    \E t \in Workers, p \in ParticipantIds :
        /\ \A i \in DOMAIN invitations : invitations[i].participant_id # p
        /\ create_invitation(t, RequestData(Fields, "e1", Ymd(0), p))

TokRaceConfirm ==
    \E t \in Workers, response \in {"confirmed", "declined"} :
        confirm_get(t, TokenOf(t), response)

NextTokenRace ==
    \/ TokRaceCreate
    \/ TokRaceConfirm
    \/ RaceConfirmUpdate
    \/ RaceConfirmEventGet
    \/ RaceConfirmEventPut

SpecTokenRace == Init /\ [][NextTokenRace]_vars

(* Repeated manual reminders: one serving thread creates an invitation,    *)
(* reads the settings and asks for its reminder again and again.           *)
ManyCreate ==
    \E d \in DateInputs :
        /\ invitations = <<>>
        /\ create_invitation("w1", RequestData(Fields, "e1", d, "p1"))

ManySettings == get_reminder_settings("w1")

ManySendNow == \E token \in 1..2 : api_send_reminder("w1", token)

ManySendGet == send_get("w1")

ManySendInsert == Len(reminders) < MaxSendNow /\ send_insert("w1")

NextManyReminders ==
    \/ ManyCreate
    \/ ManySettings
    \/ ManySendNow
    \/ ManySendGet
    \/ ManySendInsert
    \/ Tick

SpecManyReminders == Init /\ [][NextManyReminders]_vars

(* ------------------------------ claims --------------------------------- *)

Tokens == {invitations[i].token : i \in DOMAIN invitations}

StatusOf(token) ==
    LET i == CHOOSE j \in DOMAIN invitations : invitations[j].token = token
    IN  invitations[i].status

RemindersOn(token, day) ==
    {i \in DOMAIN reminders :
        reminders[i].invitation_token = token /\ reminders[i].sent_at = day}

\* thread t takes the step
Steps(t) == th'[t] # th[t]

\* C1 (as claimed): for every token and every calendar day the reminder log
\* holds at most one Reminder of that token sent on that day, whether the
\* evaluation passes run one after another or interleave.
C1_OneReminderPerDay ==
    \A token \in Tokens, day \in 0..MaxDay :
        Cardinality(RemindersOn(token, day)) <= 1

\* C2 (as claimed): once an invitation's status is confirmed or declined, no
\* step changes it.
C2_StatusNeverReverses ==
    [][\A i \in DOMAIN invitations :
            invitations[i].status # "pending"
                => invitations'[i].status = invitations[i].status]_vars

\* C2 (amended): no invitation is ever deleted, a status that has left pending
\* never becomes pending again, and the store update of recordResponse sets
\* the status of its invitation to its response, whatever the status was
\* (confirmed may become declined and declined confirmed).
C2_NeverBackToPending ==
    [][/\ \A i \in DOMAIN invitations :
              /\ i \in DOMAIN invitations'
              /\ invitations[i].status # "pending"
                    => invitations'[i].status \in {"confirmed", "declined"}
       /\ \A t \in Threads :
              th[t].pc = "confirm_update" /\ Steps(t)
                  => \A i \in DOMAIN invitations' :
                        invitations'[i].token = th[t].token
                            => invitations'[i].status = th[t].response]_vars

\* C2 witness: a second response has just overwritten a confirmed invitation
\* with declined.
C2_Witness ==
    /\ th["w1"].pc = "confirm_event_get"
    /\ th["w1"].response = "declined"
    /\ th["w1"].token \in responded
    /\ resp.op = "confirm_response"
    /\ resp.body = <<"confirmed">>
    /\ Len(invitations) = 1
    /\ StatusOf(th["w1"].token) = "declined"

\* C3 (as claimed): when a Reminder of the token sent today is already in the
\* log (recorded by an earlier sendReminderNow), the insert step of a further
\* sendReminderNow on that token appends nothing.
C3_SecondSendNowSuppressed ==
    [][\A t \in Threads :
            /\ th[t].op = "api_send_reminder"
            /\ th[t].pc = "send_insert"
            /\ Steps(t)
            /\ RemindersOn(th[t].token, today) # {}
            => reminders' = reminders]_vars

\* C4: when a recordResponse(token, r) call returns, getStatus(token) returns
\* r; a token whose response has returned never has status pending; and a
\* pass appends no Reminder for a token whose response had returned when the
\* pass fetched its invitations.
C4_RespondedNeverReminded ==
    [][/\ \A t \in Threads, token \in TokenInputs, r \in ResponseInputs :
              /\ th[t].pc = "confirm_event_put" /\ Steps(t)
              /\ th[t].token = token /\ th[t].response = r
              => /\ check_status_response(token)'.code = 200
                 /\ check_status_response(token)'.body = <<r>>
       /\ \A token \in responded : StatusOf(token) \in {"confirmed", "declined"}
       /\ \A t \in Threads :
              /\ th[t].op = "check_pending_invitations"
              /\ Steps(t)
              /\ Len(reminders') > Len(reminders)
              => reminders'[Len(reminders')].invitation_token \notin th[t].after]_vars

\* C4 witness: /debug/check_pending_now has run a whole pass after a declined
\* response returned, a day later, and the log holds no Reminder.
C4_Witness ==
    /\ responded # {}
    /\ resp.op = "check_pending_now"
    /\ StatusOf(1) = "declined"
    /\ invitations[1].response_time = <<0>>
    /\ today = 1
    /\ reminders = <<>>

\* the whole-day difference of C5 for the invitation a pass is at
DaysUntil(t) ==
    strptime(th[t].pending_invitations[th[t].idx].event_date) - th[t].now

\* C5: a pass that reaches a fetched invitation with a parsable event date and
\* no Reminder of its token since the start of the pass's day calls
\* send_reminder iff 0 <= d <= 3; send_reminder then records the Reminder iff
\* the invitation is still pending; and a pass records no other Reminder.
C5_DueWindow ==
    [][\A t \in Threads :
        /\ th[t].pc = "pass_eval" /\ Steps(t)
            => LET invitation == th[t].pending_invitations[th[t].idx]
               IN  /\ invitation.event_date.kind = "ymd"
                   /\ \A i \in DOMAIN reminders :
                        reminders[i].invitation_token = invitation.token
                            => reminders[i].sent_at < th[t].now
                   => (th'[t].pc = "send_get"
                        <=> (0 <= DaysUntil(t) /\ DaysUntil(t) <= 3))
        /\ th[t].op = "check_pending_invitations" /\ th[t].pc = "send_get" /\ Steps(t)
            => (th'[t].pc = "send_insert" <=> StatusOf(th[t].token) = "pending")
        /\ th[t].op = "check_pending_invitations" /\ th[t].pc = "send_insert" /\ Steps(t)
            => /\ reminders' = Append(reminders, reminders'[Len(reminders')])
               /\ reminders'[Len(reminders')].invitation_token = th[t].token
               /\ reminders'[Len(reminders')].sent_at = today
        /\ th[t].op = "check_pending_invitations" /\ Steps(t)
                /\ reminders' # reminders
            => /\ th[t].pc = "send_insert"
               /\ th[t].pending_invitations[th[t].idx].event_date.kind = "ymd"
               /\ 0 <= DaysUntil(t) /\ DaysUntil(t) <= 3]_vars

\* C5 witness: a pass has recorded the Reminder of an invitation whose event
\* is exactly 3 days ahead.
C5_Witness ==
    /\ Len(invitations) = 1
    /\ invitations[1].event_date = Ymd(4)
    /\ th = [t \in Threads |-> NoLocals]
    /\ reminders = <<NewReminder(invitations[1], 1)>>

\* the (participant id, status) pairs of a participants mapping
Pairs(participants) == {<<p, participants[p]>> : p \in DOMAIN participants}

InvitationsOf(event_id) ==
    {i \in DOMAIN invitations : invitations[i].event_id = event_id}

\* C6 (as claimed): getEventParticipantStatuses(eventId) is exactly the set of
\* (participant id, status) pairs of the Invitation records of eventId.
C6_AggregateIsPairSet ==
    \A e \in EventIds :
        Pairs(check_event_invitations_response(e).body)
            = {<<invitations[i].participant_id, invitations[i].status>> :
                    i \in InvitationsOf(e)}

\* C6 (amended): the mapping returned holds exactly the participant ids of the
\* Invitation records of eventId, each with the current status of the record
\* created last for that participant and event; it is the set of all their
\* (participant id, status) pairs when no two of them share a participant id.
C6_AggregateIsLastPerParticipant ==
    \A e \in EventIds :
        LET participants == check_event_invitations_response(e).body
        IN  /\ DOMAIN participants
                = {invitations[i].participant_id : i \in InvitationsOf(e)}
            /\ \A i \in InvitationsOf(e) :
                (\A j \in InvitationsOf(e) :
                    invitations[j].participant_id = invitations[i].participant_id
                        => j <= i)
                => participants[invitations[i].participant_id] = invitations[i].status
            /\ (\A i, j \in InvitationsOf(e) :
                    invitations[i].participant_id = invitations[j].participant_id
                        => i = j)
                => Pairs(participants)
                    = {<<invitations[i].participant_id, invitations[i].status>> :
                            i \in InvitationsOf(e)}

\* C6 witness: e1 has two invitations of p1, the first confirmed, the second
\* declined, and the query for e1 has just answered.
C6_Witness ==
    /\ Len(invitations) = 2
    /\ \A i \in 1..2 : invitations[i].event_id = "e1" /\ invitations[i].participant_id = "p1"
    /\ invitations[1].status = "confirmed"
    /\ invitations[2].status = "declined"
    /\ resp.op = "check_event_invitations"
    /\ resp.body = [p \in {"p1"} |-> "declined"]

\* C7 (as claimed, for the invitations that have a response and are the only
\* one of their participant and event): whenever no recordResponse call is in
\* progress, every Event record of the invitation's event id maps the
\* invitation's participant id to its current status.
C7_EventMapMatchesInvitations ==
    (\A t \in Threads : th[t].op # "confirm_response")
        => \A i \in DOMAIN invitations, k \in DOMAIN events :
            /\ invitations[i].status # "pending"
            /\ events[k].event_id = invitations[i].event_id
            /\ \A j \in DOMAIN invitations :
                    /\ invitations[j].event_id = invitations[i].event_id
                    /\ invitations[j].participant_id = invitations[i].participant_id
                    => j = i
            => /\ invitations[i].participant_id \in DOMAIN events[k].participants
               /\ events[k].participants[invitations[i].participant_id]
                    = invitations[i].status

\* C8: createInvitation with a required field absent answers 400 naming the
\* first field, in the order of the seven, that the request lacks, and leaves
\* the invitation store as it was.
C8_MissingFieldRejected ==
    [][\A present \in PresentInputs \ {Fields} :
            create_invitation("w1", RequestData(present, "e1", Ymd(0), "p1"))
            => /\ resp'.op = "create_invitation"
               /\ resp'.code = 400
               /\ \E i \in 1..Len(required_fields) :
                    /\ required_fields[i] \notin present
                    /\ \A j \in 1..(i - 1) : required_fields[j] \in present
                    /\ resp'.error = required_fields[i]
               /\ invitations' = invitations]_vars

\* C8 witness: a request lacking participant_phone has been refused, naming it,
\* with one invitation stored.
C8_Witness ==
    /\ resp.op = "create_invitation"
    /\ resp.code = 400
    /\ resp.error = "participant_phone"
    /\ Len(invitations) = 1

\* C9: recordResponse with a response outside {confirmed, declined} answers
\* the invalid-response error, with a valid response and an unknown token the
\* not-found error; both end the call and leave the invitation store and the
\* events as they were.
C9_BadResponseRejected ==
    [][\A token \in TokenInputs, response \in ResponseInputs :
            confirm_get("w1", token, response)
            => /\ response \notin {"confirmed", "declined"}
                    => /\ resp'.op = "confirm_response"
                       /\ resp'.error = "invalid_response"
                       /\ th'["w1"].pc = "idle"
                       /\ invitations' = invitations /\ events' = events
               /\ response \in {"confirmed", "declined"} /\ token \notin Tokens
                    => /\ resp'.op = "confirm_response"
                       /\ resp'.error = "not_found"
                       /\ th'["w1"].pc = "idle"
                       /\ invitations' = invitations /\ events' = events]_vars

\* C9 witness: a response to an unknown token has been refused while an
\* invitation and an event are stored.
C9_Witness ==
    /\ resp.op = "confirm_response"
    /\ resp.error = "not_found"
    /\ invitations # <<>>
    /\ events # <<>>

\* C10: sendReminderNow on an unknown token answers 404 not found, on an
\* invitation that is confirmed or declined 400 already responded; both end
\* the call with the reminder log as it was.
C10_SendNowRejected ==
    [][\A token \in 1..(MaxInvReminders + 1) :
            api_send_reminder("w1", token)
            => /\ token \notin Tokens
                    => /\ resp'.op = "send_reminder"
                       /\ resp'.code = 404
                       /\ resp'.error = "not_found"
                       /\ th'["w1"].pc = "idle"
                       /\ reminders' = reminders
               /\ token \in Tokens /\ StatusOf(token) \in {"confirmed", "declined"}
                    => /\ resp'.op = "send_reminder"
                       /\ resp'.code = 400
                       /\ resp'.error = "already_responded"
                       /\ th'["w1"].pc = "idle"
                       /\ reminders' = reminders]_vars

\* C10 witness: sendReminderNow has been refused for a declined invitation
\* that was reminded before it was declined.
C10_Witness ==
    /\ resp.op = "send_reminder"
    /\ resp.error = "already_responded"
    /\ Len(invitations) = 1
    /\ StatusOf(1) = "declined"
    /\ reminders # <<>>

\* C11 (as claimed): sendEventRemindersNow(eventId) on an event id that has a
\* pending invitation does not answer not found, whether or not a participant
\* of the event has responded.
C11_EventRemindersFound ==
    [][\A e \in EventIds :
            event_reminders_get("w1", e) /\ PendingOfEvent(e) # <<>>
                => resp'.code # 404]_vars

AliveLoops == {l \in SchedThreads : is_alive(l)}

\* C12 (as claimed): in every reachable state at most one reminder_scheduler
\* thread is alive, for any interleaving of concurrent startScheduler calls.
C12_OneLoopAlive == Cardinality(AliveLoops) <= 1

\* C14 (as claimed): every startScheduler call that returns leaves the
\* scheduler running: a loop is alive and stop_reminder_thread is not set, so
\* that the loop keeps polling; also when the call comes after stopScheduler
\* and before the previous loop has exited.
C14_StartLeavesRunning ==
    [][\A t \in Workers :
            /\ th[t].pc = "idle" \/ th[t].op = "start_reminder_thread"
            /\ th'[t].pc = "idle"
            /\ resp'.op = "start_reminder_thread"
            /\ resp' # resp \/ Steps(t)
            => /\ AliveLoops' # {}
               /\ ~sched'.stop_reminder_thread]_vars

\* C15 (as claimed): at most one evaluation pass triggered by the scheduler's
\* cadences is in progress at any time.
C15_OneCadencePass ==
    Cardinality({l \in SchedThreads : th[l].op = "check_pending_invitations"}) <= 1

\* thread l starts a job of run_pending (an evaluation pass) in this step
StartsJob(l) ==
    /\ sched.loop[l].pc = "jobs"
    /\ sched'.loop[l].pc = "jobs"
    /\ sched'.loop[l].due < sched.loop[l].due

\* C13 (as claimed): while stop_reminder_thread is set (stopScheduler was
\* called and no startScheduler has cleared the flag since), the loop starts
\* no evaluation pass.
C13_NoPassAfterStop ==
    [][\A l \in SchedThreads :
            sched.stop_reminder_thread => ~StartsJob(l)]_vars

\* C13 (amended): the loop reads the flag only at the test of its while loop:
\* a test that finds the flag set ends the thread, and until that test the
\* jobs run_pending had found due still start and run; stopScheduler touches
\* neither the loop's position nor a pass in progress; every pass runs to
\* its end; and a loop alive while the flag is set exits, unless a
\* startScheduler clears the flag first.
C13_ExitsAtPollingBoundary ==
    /\ [][\A l \in SchedThreads :
            /\ sched.loop[l].pc = "while" /\ sched'.loop[l] # sched.loop[l]
                => (sched.stop_reminder_thread <=> ~is_alive(l)')
            /\ is_alive(l) /\ ~is_alive(l)'
                => /\ sched.loop[l].pc = "while"
                   /\ sched.stop_reminder_thread
                   /\ th[l].pc = "idle"
            /\ ~sched.stop_reminder_thread /\ sched'.stop_reminder_thread
                => /\ sched'.loop = sched.loop
                   /\ th'[l] = th[l]]_vars
    /\ \A l \in SchedThreads :
            /\ (th[l].pc # "idle") ~> (th[l].pc = "idle")
            /\ (sched.stop_reminder_thread /\ is_alive(l))
                    ~> (~is_alive(l) \/ ~sched.stop_reminder_thread)

\* C13 witness: the loop has exited after a stop request, and the pass that
\* was in progress has recorded its Reminder.
C13_Witness ==
    /\ sched.stop_reminder_thread
    /\ sched.reminder_thread = SchedThread
    /\ AliveLoops = {}
    /\ th[SchedThread].pc = "idle"
    /\ resp.op = "stop_reminder_thread"
    /\ reminders # <<>>

\* C16: a pass that reaches an invitation whose event date is empty or does
\* not parse records no Reminder for it and goes on to the next invitation it
\* fetched (it ends only after the last one); a pass leaves out none of the
\* invitations it fetched, and the Reminder it records is the one of the
\* invitation it is at.
C16_BadRecordSkipped ==
    [][\A t \in Threads :
        th[t].op = "check_pending_invitations" /\ Steps(t)
        => LET invitation == th[t].pending_invitations[th[t].idx]
               last == th[t].idx = Len(th[t].pending_invitations)
           IN  /\ th[t].pc = "pass_eval" /\ invitation.event_date.kind # "ymd"
                    => /\ reminders' = reminders
                       /\ IF last THEN th'[t].pc = "idle"
                          ELSE /\ th'[t].pc = "pass_eval"
                               /\ th'[t].idx = th[t].idx + 1
               /\ th'[t].pc = "idle" => last
               /\ th'[t].pc # "idle"
                    => /\ th'[t].pending_invitations = th[t].pending_invitations
                       /\ th'[t].idx \in {th[t].idx, th[t].idx + 1}
               /\ reminders' # reminders
                    => /\ reminders' = Append(reminders, reminders'[Len(reminders')])
                       /\ reminders'[Len(reminders')].invitation_token = invitation.token]_vars

\* C16 witness: the scheduler's pass fetched an invitation with an unparsable
\* date and one that is due, has passed the first without a Reminder and is
\* about to record the Reminder of the second.
C16_Witness ==
    /\ th[SchedThread].op = "check_pending_invitations"
    /\ Len(th[SchedThread].pending_invitations) = 2
    /\ th[SchedThread].pending_invitations[1].event_date = BadDate
    /\ th[SchedThread].idx = 2
    /\ th[SchedThread].pc = "send_insert"
    /\ reminders = <<>>

\* the invitations of e1 that hold a response
RespondedOf(event_id) ==
    {i \in InvitationsOf(event_id) : invitations[i].status # "pending"}

\* the Event records that recordResponse calls run one after the other leave,
\* when every participant has one invitation: none before the first response,
\* then one record of e1 with the status of every invitation that has one
SerialEvents ==
    IF RespondedOf("e1") = {} THEN <<>>
    ELSE LET first == invitations[CHOOSE i \in RespondedOf("e1") : TRUE]
         IN  <<[event_id |-> "e1",
                event_name |-> first.event_name,
                event_date |-> first.event_date,
                event_time |-> first.event_time,
                participants |->
                    [p \in {invitations[i].participant_id : i \in RespondedOf("e1")} |->
                        invitations[CHOOSE i \in RespondedOf("e1") :
                                        invitations[i].participant_id = p].status]]>>

\* C17 (as claimed): when the recordResponse calls on different tokens have
\* all returned, the Event records are those the same calls leave when run
\* one after the other, whatever the interleaving of their store calls.
C17_ResponsesCommute ==
    (\A t \in Threads : th[t].op # "confirm_response") => events = SerialEvents

\* C18: no two Invitation records share a token, and no step removes an
\* Invitation record or changes the token of one.
C18_TokensUniqueImmutable ==
    /\ [](\A i, j \in DOMAIN invitations :
            invitations[i].token = invitations[j].token => i = j)
    /\ [][\A i \in DOMAIN invitations :
            /\ i \in DOMAIN invitations'
            /\ invitations'[i].token = invitations[i].token]_vars

\* C18 witness: two invitations were created and both have since had their
\* response recorded; they hold the tokens they were created with.
C18_Witness ==
    /\ Len(invitations) = 2
    /\ invitations[1].token = 1 /\ invitations[1].status = "declined"
    /\ invitations[2].token = 2 /\ invitations[2].status = "confirmed"
    /\ responded = {1, 2}

\* C19 (as claimed): whenever a Reminder is appended, the stored status of its
\* invitation at that moment is pending, under every interleaving with a
\* recordResponse on the same token.
C19_AppendOnlyWhilePending ==
    [][Len(reminders') > Len(reminders)
        => StatusOf(reminders'[Len(reminders')].invitation_token) = "pending"]_vars

\* the scheduler is running: a loop is alive and no stop is requested
Running == \E l \in SchedThreads : is_alive(l) /\ ~sched.stop_reminder_thread

Pending(token) ==
    \E i \in DOMAIN invitations :
        invitations[i].token = token /\ invitations[i].status = "pending"

\* the invitation is pending, its event is 0 to 3 days ahead of day d, which
\* is the current day, and the log holds no Reminder of it sent on day d
DueOn(token, d) ==
    /\ today = d
    /\ RemindersOn(token, d) = {}
    /\ \E i \in DOMAIN invitations :
            /\ invitations[i].token = token
            /\ invitations[i].status = "pending"
            /\ invitations[i].event_date.kind = "ymd"
            /\ 0 <= invitations[i].event_date.day - d
            /\ invitations[i].event_date.day - d <= days_before_event

\* C20: an invitation that is due on the current day while the scheduler is
\* running eventually has a Reminder of that day in the log, unless it gets
\* a response, the day ends or the scheduler is stopped first.
C20_DueEventuallyReminded ==
    \A token \in 1..MaxInvReminders, d \in 0..MaxDay :
        (Running /\ DueOn(token, d))
            ~> \/ RemindersOn(token, d) # {}
               \/ ~Pending(token)
               \/ today # d
               \/ ~Running

\* C20 witness: with the scheduler running, a pass has recorded on day 1 the
\* Reminder of a pending invitation whose event is 3 days ahead.
C20_Witness ==
    /\ Running
    /\ today = 1
    /\ Pending(1)
    /\ invitations[1].event_date = Ymd(days_before_event + 1)
    /\ RemindersOn(1, 1) # {}
    /\ RemindersOn(1, 0) = {}

\* the Reminder records of an invitation
RemindersOf(token) ==
    {i \in DOMAIN reminders : reminders[i].invitation_token = token}

\* C21 (as claimed): the log never holds more Reminder records of one
\* invitation than the max_reminders_per_invitation that
\* get_reminder_settings reports.
C21_AtMostMaxReminders ==
    \A token \in Tokens :
        Cardinality(RemindersOf(token)) <= max_reminders_per_invitation

\* C22: a step of recordResponse(token, response) leaves the reminder log and
\* the number of Invitation records as they were, leaves every Invitation
\* record with another token as it was, and changes no field of the record
\* with that token other than status and response_time; its update sets these
\* two to the response and the current time.
C22_ResponseFrame ==
    [][\A t \in Workers, token \in TokenInputs :
        /\ Steps(t) \/ invitations' # invitations \/ reminders' # reminders
        /\ \/ th[t].op = "confirm_response" /\ th[t].token = token
           \/ \E response \in ResponseInputs : confirm_get(t, token, response)
        => /\ reminders' = reminders
           /\ DOMAIN invitations' = DOMAIN invitations
           /\ \A i \in DOMAIN invitations :
                /\ invitations[i].token # token => invitations'[i] = invitations[i]
                /\ DOMAIN invitations'[i] = DOMAIN invitations[i]
                /\ \A f \in DOMAIN invitations[i] \ {"status", "response_time"} :
                        invitations'[i][f] = invitations[i][f]
                /\ th[t].pc = "confirm_update" /\ invitations[i].token = token
                    => /\ invitations'[i].status = th[t].response
                       /\ invitations'[i].response_time = <<today>>]_vars

\* C22 witness: with a Reminder of the second invitation in the log, a second
\* response to the first invitation has been recorded; the second invitation
\* is still pending and the log holds that one Reminder.
C22_Witness ==
    /\ Len(invitations) = 2
    /\ invitations[1].status = "declined"
    /\ invitations[1].response_time # <<>>
    /\ invitations[2].status = "pending"
    /\ invitations[2].response_time = <<>>
    /\ resp.op = "confirm_response"
    /\ resp.body = <<"declined">>
    /\ Len(reminders) = 1
    /\ reminders[1].invitation_token = 2

====
